---- MODULE Spec2Model ----
(***************************************************************************)
(* RasterOnlyTaskflow (raster_taskflow.cpp): a pipeline of raster and      *)
(* transition sub-graphs composed into one outer task graph, with the      *)
(* success/failure callback bridge and the abort of the two child          *)
(* generators.  The outer graph is executed by the node state machine      *)
(* PENDING -> READY -> RUNNING -> SUCCESS | FAILURE | SKIPPED | ABORTED.   *)
(***************************************************************************)
EXTENDS Integers, Sequences, FiniteSets, TLC

\* Largest number of segments of an input composite (R-T-R-T-R is 5).
MaxSegs == 5

\* Largest number of abort() calls the host makes in one run.
MaxAborts == 2

\* Largest number of runs on one RasterOnlyTaskflow object.
MaxRuns == 2

\* Largest number of segments of an input where one object runs several times.
MaxRunsSegs == 3

\* Largest number of instructions of a planner request.
MaxInstructions == 2

\* Largest number of states of the seed of one plan instruction.
MaxSeed == 2

\* Largest io number of a WaitInstruction (io numbers are drawn from -1..MaxIO).
MaxIO == 2

\* Largest wait time of a WaitInstruction, in seconds.
MaxWaitTime == 2

Generators == {"transition", "raster"}

Terminal == {"SUCCESS", "FAILURE", "SKIPPED", "ABORTED"}

VARIABLES
  phase,              \* "constructed" | "running" | "finished" | "crashed"
  thrown,             \* the last generateTaskflow threw "Invalid Process Input"
  raster_tasks_,      \* sequence of node ids, one per raster step
  transition_tasks_,  \* sequence of node ids, one per transition step
  edges,              \* taskflow_: set of [from, to, guard]
  input_size,         \* input.size() of the ProcessInput the taskflow was built from
  owner,              \* node id -> the child generator that built its sub-graph
  status,             \* node id -> node state
  pc,                 \* node id -> position inside failureCallback
  abortFlag,          \* child generator -> abort() was called on it
  hostpc,             \* position of the host's call of abort()
  abortCalls,         \* number of abort() calls of the host that returned, this run
  run,                \* number of taskflows generated on this object
  node_infos,         \* the context's Node Infos: node id -> recorded infos
  context,            \* the context's values: Context Key -> value
  resetAt,            \* the value of run at the last reset() (0: never reset)
  gen,                \* DefaultTrajoptProblemGenerator: its arguments and locals
  leaf,               \* the task node that calls the generator: status, Node Info
  wait,               \* a WaitInstruction: how it was constructed and its members
  built,              \* what the last accepted generateTaskflow did while building
  done_cb,            \* the host passed a non-empty done_cb
  error_cb,           \* the host passed a non-empty error_cb
  doneCalls,          \* number of invocations of done_cb
  errorCalls,         \* number of invocations of error_cb
  runStatus,          \* "NONE" until the run is over, then "SUCCESS" | "FAILURE"
  everRunning,        \* node ids that have been RUNNING
  accessed,           \* node ids that have read or written the execution context
  pendingAtFailure,   \* node ids that were PENDING when some node returned FAILURE
  failureLog          \* messages failureCallback was invoked with, in order

graph == <<raster_tasks_, transition_tasks_, edges, owner, input_size>>
host == <<done_cb, error_cb>>
hist == <<everRunning, accessed, pendingAtFailure>>
ctx == <<node_infos, context>>
trajopt == <<gen, leaf>>
raster == <<phase, thrown, graph, status, pc, abortFlag, hostpc, host,
            doneCalls, errorCalls, runStatus, hist, failureLog, abortCalls, run,
            ctx, resetAt, built>>
vars == <<raster, trajopt, wait>>

Nodes == DOMAIN status

----------------------------------------------------------------------------
(* ProcessInput, as far as checkProcessInput and generateTaskflow read it. *)

\* Every ProcessInput of up to MaxSegs segments; a composite without children
\* has size 0 and all of its (no) children are composites.
AnyInputs ==
  { input \in [size : 0..MaxSegs,
               tesseract : BOOLEAN,           \* input.tesseract != nullptr
               composite : BOOLEAN,           \* isCompositeInstruction(*input.getInstruction())
               hasStartInstruction : BOOLEAN, \* composite->hasStartInstruction()
               startInstruction : BOOLEAN,    \* !isNullInstruction(input.getStartInstruction())
               childrenComposite : BOOLEAN]   \* every composite->at(index) is a composite
      : input.size = 0 => input.childrenComposite }

\* The inputs of a program with at least one segment, whose start instruction,
\* if there is one, is the one of the composite.
Inputs == { input \in AnyInputs : input.size >= 1 /\ ~input.startInstruction }

isNullInstruction(present) == ~present

checkProcessInput(input) ==
  IF ~input.tesseract THEN FALSE
  ELSE IF ~input.composite THEN FALSE
  ELSE IF ~input.hasStartInstruction /\ isNullInstruction(input.startInstruction) THEN FALSE
  ELSE IF ~input.childrenComposite THEN FALSE
  ELSE TRUE

\* clear(): the taskflow and raster_tasks_ are emptied; transition_tasks_ is
\* not touched.
clear ==
  [raster_tasks_ |-> << >>,
   transition_tasks_ |-> transition_tasks_,
   edges |-> {}]

\* The width of std::size_t, scaled down; 2^SizeBits exceeds every size here.
SizeBits == 4
SizeModulus == 2 ^ SizeBits

\* The start instruction of raster #0: the one of the composite, whatever
\* the ProcessInput carries (idx == 0 branch of the raster loop).
getStartInstruction(input) ==
  IF input.hasStartInstruction THEN "composite" ELSE "null"

\* for (idx = 0; idx < input.size(); idx += 2) raster_tasks_.push_back(step)
\* The step built from input[idx] is identified by idx.
RECURSIVE RasterLoop(_, _, _)
RasterLoop(idx, size, tasks) ==
  IF idx < size
    THEN RasterLoop(idx + 2, size, Append(tasks, idx))
    ELSE tasks

\* Variant: the second succeed() call is missing.
succeed_FirstOnly(transition_step, rasters, starting_raster_idx, transition_idx) ==
  { [from |-> rasters[starting_raster_idx + transition_idx + 1],
     to |-> transition_step, guard |-> "always"] }

\* Variant: the second succeed() call is made the wrong way round and on the
\* same raster, raster_tasks_[...].succeed(transition_step).
succeed_Backwards(transition_step, rasters, starting_raster_idx, transition_idx) ==
  { [from |-> rasters[starting_raster_idx + transition_idx + 1],
     to |-> transition_step, guard |-> "always"],
    [from |-> transition_step,
     to |-> rasters[starting_raster_idx + transition_idx + 1],
     guard |-> "always"] }

\* transition_step.succeed(raster_tasks_[starting_raster_idx + transition_idx]);
\* transition_step.succeed(raster_tasks_[starting_raster_idx + transition_idx + 1]);
succeed(transition_step, rasters, starting_raster_idx, transition_idx) ==
  { [from |-> rasters[starting_raster_idx + transition_idx + 1],
     to |-> transition_step, guard |-> "always"],
    [from |-> rasters[starting_raster_idx + transition_idx + 2],
     to |-> transition_step, guard |-> "always"] }

\* input.size() - 1 in std::size_t arithmetic.
loopBound(size) == (size - 1) % SizeModulus

\* for (input_idx = 1; input_idx < input.size() - 1; input_idx += 2)
\* The loop stops at the first input[input_idx] or raster_tasks_[...] whose
\* position is not below the size of what it indexes.
RECURSIVE TransitionLoop(_, _, _, _, _, _)
TransitionLoop(input_idx, transition_idx, size, rasters, starting_raster_idx, acc) ==
  IF input_idx < loopBound(size)
    THEN IF \/ input_idx >= size
            \/ starting_raster_idx + transition_idx + 1 >= Len(rasters)
           THEN [acc EXCEPT !.out_of_range = TRUE]
           ELSE TransitionLoop(input_idx + 2, transition_idx + 1, size, rasters,
                  starting_raster_idx,
                  [acc EXCEPT
                     !.tasks = Append(acc.tasks, input_idx),
                     !.edges = acc.edges \cup
                        succeed(input_idx, rasters, starting_raster_idx, transition_idx),
                     !.created = acc.created + 1])
    ELSE acc

\* The graph generateTaskflow builds for an input that passed the check.
BuildTaskflow(input) ==
  LET cleared == clear
      starting_raster_idx == Len(cleared.raster_tasks_)
      rasters == RasterLoop(0, input.size, cleared.raster_tasks_)
      trans == TransitionLoop(1, 0, input.size, rasters, starting_raster_idx,
                 [tasks |-> cleared.transition_tasks_, edges |-> cleared.edges,
                  created |-> 0, out_of_range |-> FALSE])
  IN [raster_tasks_ |-> rasters,
      transition_tasks_ |-> trans.tasks,
      edges |-> trans.edges,
      built |-> [size |-> input.size,
                 start_instruction |-> IF input.size > 0
                                         THEN getStartInstruction(input)
                                         ELSE "unused",
                 transitions |-> trans.created,
                 out_of_range |-> trans.out_of_range]]

Range(s) == { s[i] : i \in 1..Len(s) }

\* input[idx].getInstruction()->getDescription(): one description per segment.
segmentDescription(idx) == <<"segment", idx>>

\* Variant: the callback is bound to the description of the segment before.
failureMessage_Previous(step) == segmentDescription(step - 1)

\* std::bind(&failureCallback, this, <step input>.getInstruction()->getDescription(), error_cb)
failureMessage(step) == segmentDescription(step)

----------------------------------------------------------------------------
(* The Execution Context: values by Context Key and Node Infos by node id. *)

ContextKeys == {"program"}
ContextValues == {"seed", "trajectory"}

\* The context the caller creates for a run.
newContext == [key \in ContextKeys |-> "NotFound"]

\* get(key) -> value or NotFound
get(key) == context[key]

\* getNodeInfo(nodeId) -> info or NotFound
getNodeInfo(nodeId) ==
  IF nodeId \in DOMAIN node_infos /\ node_infos[nodeId] # << >>
    THEN node_infos[nodeId][1]
    ELSE "NotFound"

\* Variant: a node's info is recorded a second time.
recordNodeInfo_Twice(nodeId, info) ==
  [node_infos EXCEPT ![nodeId] = Append(Append(@, info), info)]

\* Variant: a node's info is not recorded when its state is.
recordNodeInfo_Later(nodeId, info) == node_infos

\* recordNodeInfo(nodeId, info): the mapping is append-only.
recordNodeInfo(nodeId, info) ==
  [node_infos EXCEPT ![nodeId] = Append(@, info)]

----------------------------------------------------------------------------
(* DefaultTrajoptProblemGenerator before it is called.                     *)

\* A placeholder for request.instructions[i] before the loop has read any.
noInstruction ==
  [plan |-> FALSE, motion |-> "linear", waypoint |-> "other", profile |-> "",
   seed_size |-> 1, calcFwdKin |-> FALSE]

\* The generator before it is called.
idleGenerator ==
  [at |-> "idle", result |-> "none", error |-> "none",
   manipulator |-> FALSE, null_kin_used |-> FALSE, size |-> 0, profile |-> "",
   plan_profiles |-> << >>, composite_profiles |-> << >>,
   i |-> 0, index |-> 0, seed_states |-> 0, fixed_steps |-> << >>,
   found_plan_instruction |-> FALSE, start_waypoint |-> "other",
   instruction |-> noInstruction,
   cur_plan_profile |-> <<"nullptr", "">>,
   cur_composite_profile |-> <<"nullptr", "">>,
   n_steps |-> 0]

\* No WaitInstruction has been constructed.
noWaitInstruction ==
  [constructor |-> <<"none">>, object |-> FALSE, error |-> "none",
   description_ |-> "", wait_type_ |-> "TIME", wait_time_ |-> 0, wait_io_ |-> 0]

----------------------------------------------------------------------------
\* Nothing has been built on a new object.
notBuilt ==
  [size |-> 0, start_instruction |-> "unused",
   transitions |-> 0, out_of_range |-> FALSE]

Init ==
  /\ phase = "constructed"
  /\ thrown = FALSE
  /\ raster_tasks_ = << >>
  /\ transition_tasks_ = << >>
  /\ edges = {}
  /\ owner = << >>
  /\ input_size = 0
  /\ status = << >>
  /\ pc = << >>
  /\ abortFlag = [g \in Generators |-> FALSE]
  /\ hostpc = "idle"
  /\ abortCalls = 0
  /\ run = 0
  /\ node_infos = << >>
  /\ context = newContext
  /\ resetAt = 0
  /\ gen = idleGenerator
  /\ leaf = [status |-> "NONE", info |-> FALSE]
  /\ wait = noWaitInstruction
  /\ built = notBuilt
  /\ done_cb = FALSE
  /\ error_cb = FALSE
  /\ doneCalls = 0
  /\ errorCalls = 0
  /\ runStatus = "NONE"
  /\ everRunning = {}
  /\ accessed = {}
  /\ pendingAtFailure = {}
  /\ failureLog = << >>

\* How a call that passed the check ends. Indexing input or raster_tasks_
\* out of range in the transition loop is undefined: the process crashes or
\* the access throws. setPlanType() through the cast of a NullInstruction to a
\* PlanInstruction is undefined: the process crashes or the write goes
\* unnoticed and the taskflow is returned. Otherwise the taskflow is returned.
generateTaskflow_outcome(b) ==
  IF b.out_of_range
    THEN \/ phase' = "crashed" /\ thrown' = FALSE /\ run' = run
         \/ phase' = phase /\ thrown' = TRUE /\ run' = run
    ELSE IF b.start_instruction = "null"
      THEN \/ phase' = "crashed" /\ thrown' = FALSE /\ run' = run
           \/ phase' = "running" /\ thrown' = FALSE /\ run' = run + 1
      ELSE phase' = "running" /\ thrown' = FALSE /\ run' = run + 1

\* generateTaskflow(input, done_cb, error_cb), then the host hands the
\* returned taskflow to the executor.
generateTaskflow(input, dcb, ecb) ==
  /\ phase = "constructed"
  /\ IF ~checkProcessInput(input)
       THEN /\ thrown' = TRUE
            /\ UNCHANGED <<phase, graph, status, pc, abortFlag, hostpc, host,
                           doneCalls, errorCalls, runStatus, hist,
                           failureLog, abortCalls, run, ctx,
                           resetAt, trajopt, wait, built>>
       ELSE LET tf == BuildTaskflow(input)
                ids == Range(tf.raster_tasks_) \cup { e.to : e \in tf.edges }
            IN /\ built' = tf.built
               /\ raster_tasks_' = tf.raster_tasks_
               /\ transition_tasks_' = tf.transition_tasks_
               /\ edges' = tf.edges
               /\ input_size' = input.size
               /\ owner' = [n \in ids |->
                              IF n \in Range(tf.raster_tasks_)
                                THEN "raster" ELSE "transition"]
               /\ status' = [n \in ids |-> "PENDING"]
               /\ pc' = [n \in ids |-> "idle"]
               /\ node_infos' = [n \in ids |-> << >>]
               /\ context' = newContext
               /\ done_cb' = dcb
               /\ error_cb' = ecb
               /\ generateTaskflow_outcome(tf.built)
               /\ UNCHANGED <<abortFlag, hostpc, doneCalls, errorCalls,
                              runStatus, hist, failureLog, abortCalls,
                              resetAt, trajopt, wait>>

----------------------------------------------------------------------------
(* The executor's node state machine.                                      *)

Inbound(n) == { e \in edges : e.to = n }
Outbound(n) == { e \in edges : e.from = n }
Preds(n) == { e.from : e \in Inbound(n) }

\* Variant: every gate is treated as open.
GuardHolds_Always(e) == TRUE

GuardHolds(e) ==
  CASE e.guard = "always" -> TRUE
    [] e.guard = "onSuccess" -> status[e.from] = "SUCCESS"
    [] e.guard = "onFailure" -> status[e.from] = "FAILURE"

isAborted(n) == abortFlag[owner[n]]

\* PENDING -> READY
MakeReady(n) ==
  /\ phase = "running"
  /\ status[n] = "PENDING"
  /\ \A e \in Inbound(n) : status[e.from] \in Terminal /\ GuardHolds(e)
  /\ ~isAborted(n)
  /\ status' = [status EXCEPT ![n] = "READY"]
  /\ UNCHANGED <<phase, thrown, graph, pc, abortFlag, hostpc, host,
                 doneCalls, errorCalls, runStatus, hist,
                 failureLog, abortCalls, run, ctx, resetAt,
                 trajopt, wait, built>>

\* PENDING -> SKIPPED: a conditional gate is false
Skip(n) ==
  /\ phase = "running"
  /\ status[n] = "PENDING"
  /\ \A e \in Inbound(n) : status[e.from] \in Terminal
  /\ \E e \in Inbound(n) : ~GuardHolds(e)
  /\ status' = [status EXCEPT ![n] = "SKIPPED"]
  /\ UNCHANGED <<phase, thrown, graph, pc, abortFlag, hostpc, host,
                 doneCalls, errorCalls, runStatus, hist,
                 failureLog, abortCalls, run, ctx, resetAt,
                 trajopt, wait, built>>

\* PENDING | READY -> ABORTED: the abort is seen at a readiness check
AbortNode(n) ==
  /\ phase = "running"
  /\ status[n] \in {"PENDING", "READY"}
  /\ isAborted(n)
  /\ status' = [status EXCEPT ![n] = "ABORTED"]
  /\ UNCHANGED <<phase, thrown, graph, pc, abortFlag, hostpc, host,
                 doneCalls, errorCalls, runStatus, hist,
                 failureLog, abortCalls, run, ctx, resetAt,
                 trajopt, wait, built>>

\* READY -> RUNNING: the node resolves its input ports against the context
Dispatch(n) ==
  /\ phase = "running"
  /\ status[n] = "READY"
  /\ ~isAborted(n)
  /\ status' = [status EXCEPT ![n] = "RUNNING"]
  /\ everRunning' = everRunning \cup {n}
  /\ accessed' = accessed \cup {n}
  /\ UNCHANGED <<phase, thrown, graph, pc, abortFlag, hostpc, host,
                 doneCalls, errorCalls, runStatus, pendingAtFailure,
                 failureLog, abortCalls, run, ctx, resetAt,
                 trajopt, wait, built>>

----------------------------------------------------------------------------
(* The callback bridge of RasterOnlyTaskflow.                              *)

\* successCallback(message, user_callback)
successCallback(user_callback) ==
  doneCalls' = IF user_callback THEN doneCalls + 1 ELSE doneCalls

\* The node's sub-graph ends well.  A node that finishes under a set abort
\* flag does not mark success.
Succeed(n) ==
  /\ phase = "running"
  /\ status[n] = "RUNNING"
  /\ pc[n] = "idle"
  /\ IF isAborted(n)
       THEN /\ status' = [status EXCEPT ![n] = "ABORTED"]
            /\ node_infos' = recordNodeInfo(n, "ABORTED")
            /\ UNCHANGED doneCalls
       ELSE /\ status' = [status EXCEPT ![n] = "SUCCESS"]
            /\ node_infos' = recordNodeInfo(n, "SUCCESS")
            /\ successCallback(done_cb)
  /\ UNCHANGED <<context, phase, thrown, graph, pc, abortFlag, hostpc, host,
                 errorCalls, runStatus, hist, failureLog,
                 abortCalls, run, resetAt, trajopt, wait,
                 built>>

\* Variant: failureCallback does not abort the transition generator.
failureCallback_abortTransition_NoAbort(n) ==
  /\ phase = "running"
  /\ status[n] = "RUNNING"
  /\ pc[n] = "idle"
  /\ pc' = [pc EXCEPT ![n] = "abort_raster"]
  /\ UNCHANGED <<phase, thrown, graph, status, abortFlag, hostpc, host,
                 doneCalls, errorCalls, runStatus, hist,
                 failureLog, abortCalls, run, ctx, resetAt,
                 trajopt, wait, built>>

\* failureCallback, first statement: transition_taskflow_generator_->abort()
\* (the node's sub-graph ended in FAILURE and runs its error callback)
failureCallback_abortTransition(n) ==
  /\ phase = "running"
  /\ status[n] = "RUNNING"
  /\ pc[n] = "idle"
  /\ abortFlag' = [abortFlag EXCEPT !["transition"] = TRUE]
  /\ pc' = [pc EXCEPT ![n] = "abort_raster"]
  /\ UNCHANGED <<phase, thrown, graph, status, hostpc, host,
                 doneCalls, errorCalls, runStatus, hist,
                 failureLog, abortCalls, run, ctx, resetAt,
                 trajopt, wait, built>>

\* Variant: failureCallback does not abort the raster generator.
failureCallback_abortRaster_NoAbort(n) ==
  /\ pc[n] = "abort_raster"
  /\ pc' = [pc EXCEPT ![n] = "user_callback"]
  /\ UNCHANGED <<phase, thrown, graph, status, abortFlag, hostpc, host,
                 doneCalls, errorCalls, runStatus, hist,
                 failureLog, abortCalls, run, ctx, resetAt,
                 trajopt, wait, built>>

\* failureCallback, second statement: raster_taskflow_generator_->abort()
failureCallback_abortRaster(n) ==
  /\ pc[n] = "abort_raster"
  /\ abortFlag' = [abortFlag EXCEPT !["raster"] = TRUE]
  /\ pc' = [pc EXCEPT ![n] = "user_callback"]
  /\ UNCHANGED <<phase, thrown, graph, status, hostpc, host,
                 doneCalls, errorCalls, runStatus, hist,
                 failureLog, abortCalls, run, ctx, resetAt,
                 trajopt, wait, built>>

\* failureCallback, last statement: if (user_callback) user_callback();
\* the callback returns and the node is FAILURE.
failureCallback_userCallback(n) ==
  /\ pc[n] = "user_callback"
  /\ errorCalls' = IF error_cb THEN errorCalls + 1 ELSE errorCalls
  /\ pc' = [pc EXCEPT ![n] = "returned"]
  /\ status' = [status EXCEPT ![n] = "FAILURE"]
  /\ node_infos' = recordNodeInfo(n, "FAILURE")
  /\ pendingAtFailure' = pendingAtFailure \cup { m \in Nodes : status[m] = "PENDING" }
  /\ failureLog' = Append(failureLog, failureMessage(n))
  /\ UNCHANGED <<phase, thrown, graph, abortFlag, hostpc, host,
                 doneCalls, runStatus, everRunning, accessed,
                 abortCalls, run, context, resetAt, trajopt,
                 wait, built>>

\* Variant: abort() does not abort the transition generator.
abort_abortTransition_NoAbort ==
  /\ phase = "running"
  /\ hostpc \in {"idle", "returned"}
  /\ abortCalls < MaxAborts
  /\ hostpc' = "abort_raster"
  /\ UNCHANGED <<phase, thrown, graph, status, pc, abortFlag, host,
                 doneCalls, errorCalls, runStatus, hist,
                 failureLog, abortCalls, run, ctx, resetAt,
                 trajopt, wait, built>>

\* abort(), called by the host: transition_taskflow_generator_->abort()
abort_abortTransition ==
  /\ phase = "running"
  /\ hostpc \in {"idle", "returned"}
  /\ abortCalls < MaxAborts
  /\ abortFlag' = [abortFlag EXCEPT !["transition"] = TRUE]
  /\ hostpc' = "abort_raster"
  /\ UNCHANGED <<phase, thrown, graph, status, pc, host,
                 doneCalls, errorCalls, runStatus, hist,
                 failureLog, abortCalls, run, ctx, resetAt,
                 trajopt, wait, built>>

\* Variant: abort() calls reset() on the raster generator.
abort_abortRaster_Reset ==
  /\ hostpc = "abort_raster"
  /\ abortFlag' = [abortFlag EXCEPT !["raster"] = FALSE]
  /\ hostpc' = "returned"
  /\ abortCalls' = abortCalls + 1
  /\ UNCHANGED <<phase, thrown, graph, status, pc, host,
                 doneCalls, errorCalls, runStatus, hist,
                 failureLog, run, ctx, resetAt, trajopt, wait,
                 built>>

\* Variant: abort() does not abort the raster generator.
abort_abortRaster_NoAbort ==
  /\ hostpc = "abort_raster"
  /\ hostpc' = "returned"
  /\ abortCalls' = abortCalls + 1
  /\ UNCHANGED <<phase, thrown, graph, status, pc, abortFlag, host,
                 doneCalls, errorCalls, runStatus, hist,
                 failureLog, run, ctx, resetAt, trajopt, wait,
                 built>>

\* abort(): raster_taskflow_generator_->abort(), then it returns
abort_abortRaster ==
  /\ hostpc = "abort_raster"
  /\ abortFlag' = [abortFlag EXCEPT !["raster"] = TRUE]
  /\ hostpc' = "returned"
  /\ abortCalls' = abortCalls + 1
  /\ UNCHANGED <<phase, thrown, graph, status, pc, host,
                 doneCalls, errorCalls, runStatus, hist,
                 failureLog, run, ctx, resetAt, trajopt, wait,
                 built>>

\* Nodes with no outgoing edge.
Sinks == { n \in Nodes : Outbound(n) = {} }

\* The run is over: every node is terminal.
Finish ==
  /\ phase = "running"
  /\ \A n \in Nodes : status[n] \in Terminal
  /\ runStatus' = IF \A n \in Sinks : status[n] \in {"SUCCESS", "SKIPPED"}
                    THEN "SUCCESS" ELSE "FAILURE"
  /\ phase' = "finished"
  /\ UNCHANGED <<thrown, graph, status, pc, abortFlag, hostpc, host,
                 doneCalls, errorCalls, hist, failureLog,
                 abortCalls, run, ctx, resetAt, trajopt, wait,
                 built>>

\* The steps of a run of the generated taskflow, with the callbacks and the
\* host's abort().
Execute ==
  \/ \E n \in Nodes : MakeReady(n)
  \/ \E n \in Nodes : AbortNode(n)
  \/ \E n \in Nodes : Dispatch(n)
  \/ \E n \in Nodes : Succeed(n)
  \/ \E n \in Nodes : failureCallback_abortTransition(n)
  \/ \E n \in Nodes : failureCallback_abortRaster(n)
  \/ \E n \in Nodes : failureCallback_userCallback(n)
  \/ abort_abortTransition
  \/ abort_abortRaster
  \/ Finish

Next ==
  \/ \E input \in Inputs, dcb \in BOOLEAN, ecb \in BOOLEAN :
       generateTaskflow(input, dcb, ecb)
  \/ Execute

Spec == Init /\ [][Next]_vars

\* The same program, called with any ProcessInput.
NextAnyInput ==
  \/ \E input \in AnyInputs, dcb \in BOOLEAN, ecb \in BOOLEAN :
       generateTaskflow(input, dcb, ecb)
  \/ Execute

SpecAnyInput == Init /\ [][NextAnyInput]_vars

----------------------------------------------------------------------------
(* Graphs with conditional edges, assembled programmatically and run by    *)
(* the same node state machine.                                            *)

CondGraphs ==
  { \* join: node 2 is gated on nodes 0 and 1 both succeeding
    [edges |-> { [from |-> 0, to |-> 2, guard |-> "onSuccess"],
                 [from |-> 1, to |-> 2, guard |-> "onSuccess"] },
     owner |-> (0 :> "raster" @@ 1 :> "raster" @@ 2 :> "transition")],
    \* branch: node 1 runs only when node 0 failed, node 2 only when it succeeded
    [edges |-> { [from |-> 0, to |-> 1, guard |-> "onFailure"],
                 [from |-> 0, to |-> 2, guard |-> "onSuccess"] },
     owner |-> (0 :> "raster" @@ 1 :> "transition" @@ 2 :> "transition")],
    \* chain: a skipped node gates its own successor
    [edges |-> { [from |-> 0, to |-> 1, guard |-> "onSuccess"],
                 [from |-> 1, to |-> 2, guard |-> "onSuccess"] },
     owner |-> (0 :> "raster" @@ 1 :> "transition" @@ 2 :> "transition")] }

BuildGraph(g, dcb, ecb) ==
  /\ phase = "constructed"
  /\ edges' = g.edges
  /\ owner' = g.owner
  /\ input_size' = 0
  /\ status' = [n \in DOMAIN g.owner |-> "PENDING"]
  /\ pc' = [n \in DOMAIN g.owner |-> "idle"]
  /\ node_infos' = [n \in DOMAIN g.owner |-> << >>]
  /\ context' = newContext
  /\ done_cb' = dcb
  /\ error_cb' = ecb
  /\ phase' = "running"
  /\ run' = run + 1
  /\ UNCHANGED <<thrown, raster_tasks_, transition_tasks_, abortFlag, hostpc,
                 doneCalls, errorCalls, runStatus, hist,
                 failureLog, abortCalls, resetAt, trajopt,
                 wait, built>>

NextGraph ==
  \/ Next
  \/ \E g \in CondGraphs, dcb \in BOOLEAN, ecb \in BOOLEAN : BuildGraph(g, dcb, ecb)
  \/ \E n \in Nodes : Skip(n)

SpecGraph == Init /\ [][NextGraph]_vars

----------------------------------------------------------------------------
(* Writes to the context's values.                                         *)

\* Variant: set() replaces the whole content of the context.
set_Replace(key, value) ==
  /\ \/ phase = "finished"
     \/ phase = "running" /\ \E n \in Nodes : status[n] = "RUNNING"
  /\ context[key] # value
  /\ context' = [context EXCEPT ![key] = value]
  /\ node_infos' = [n \in DOMAIN node_infos |-> << >>]
  /\ UNCHANGED <<phase, thrown, graph, status, pc, abortFlag, hostpc, host,
                 doneCalls, errorCalls, runStatus, hist,
                 failureLog, abortCalls, run, resetAt, trajopt,
                 wait, built>>

\* set(key, value), by a node that is running (it writes its outputs) or by
\* the host after the run.
set(key, value) ==
  /\ \/ phase = "finished"
     \/ phase = "running" /\ \E n \in Nodes : status[n] = "RUNNING"
  /\ context[key] # value
  /\ context' = [context EXCEPT ![key] = value]
  /\ UNCHANGED <<phase, thrown, graph, status, pc, abortFlag, hostpc, host,
                 doneCalls, errorCalls, runStatus, hist,
                 failureLog, abortCalls, run, node_infos,
                 resetAt, trajopt, wait, built>>

NextCtx ==
  \/ Next
  \/ \E key \in ContextKeys, value \in ContextValues : set(key, value)

SpecCtx == Init /\ [][NextCtx]_vars

----------------------------------------------------------------------------
(* Reuse of one RasterOnlyTaskflow object for several runs.                *)

\* The inputs of the runs on an object that is used again.
RunsInputs == { input \in Inputs : input.size <= MaxRunsSegs }

\* Variant: reset() does not reset the raster generator.
reset_TransitionOnly ==
  /\ phase = "finished"
  /\ hostpc # "abort_raster"
  /\ abortFlag' = [abortFlag EXCEPT !["transition"] = FALSE]
  /\ resetAt' = run
  /\ UNCHANGED <<phase, thrown, graph, status, pc, hostpc, host,
                 doneCalls, errorCalls, runStatus, hist,
                 failureLog, abortCalls, run, ctx, trajopt,
                 wait, built>>

\* reset(): transition_taskflow_generator_->reset();
\*          raster_taskflow_generator_->reset();
\* The host calls it between runs, when none of its other calls is under way.
reset ==
  /\ phase = "finished"
  /\ hostpc # "abort_raster"
  /\ abortFlag' = [g \in Generators |-> FALSE]
  /\ resetAt' = run
  /\ UNCHANGED <<phase, thrown, graph, status, pc, hostpc, host,
                 doneCalls, errorCalls, runStatus, hist,
                 failureLog, abortCalls, run, ctx, trajopt,
                 wait, built>>

\* Variant: clear() is called before checkProcessInput.
generateTaskflow_again_ClearFirst(input, dcb, ecb) ==
  /\ phase = "finished"
  /\ hostpc # "abort_raster"
  /\ run < MaxRuns
  /\ IF ~checkProcessInput(input)
       THEN /\ thrown' = TRUE
            /\ raster_tasks_' = clear.raster_tasks_
            /\ edges' = clear.edges
            /\ status' = << >>
            /\ pc' = << >>
            /\ owner' = << >>
            /\ UNCHANGED <<phase, transition_tasks_, input_size, abortFlag,
                           hostpc, host, doneCalls, errorCalls, runStatus,
                           hist, failureLog, abortCalls, run, ctx,
                           resetAt, trajopt, wait, built>>
       ELSE LET tf == BuildTaskflow(input)
                ids == Range(tf.raster_tasks_) \cup { e.to : e \in tf.edges }
            IN /\ built' = tf.built
               /\ raster_tasks_' = tf.raster_tasks_
               /\ transition_tasks_' = tf.transition_tasks_
               /\ edges' = tf.edges
               /\ input_size' = input.size
               /\ owner' = [n \in ids |->
                              IF n \in Range(tf.raster_tasks_)
                                THEN "raster" ELSE "transition"]
               /\ status' = [n \in ids |-> "PENDING"]
               /\ pc' = [n \in ids |-> "idle"]
               /\ node_infos' = [n \in ids |-> << >>]
               /\ context' = newContext
               /\ done_cb' = dcb
               /\ error_cb' = ecb
               /\ generateTaskflow_outcome(tf.built)
               /\ hostpc' = "idle"
               /\ abortCalls' = 0
               /\ doneCalls' = 0
               /\ errorCalls' = 0
               /\ runStatus' = "NONE"
               /\ everRunning' = {}
               /\ accessed' = {}
               /\ pendingAtFailure' = {}
               /\ failureLog' = << >>
               /\ UNCHANGED <<abortFlag, resetAt, trajopt, wait>>

\* generateTaskflow(input, done_cb, error_cb) on an object whose earlier run
\* is over, then the host hands the returned taskflow to the executor; what
\* the host observes of a run starts afresh.
generateTaskflow_again(input, dcb, ecb) ==
  /\ phase = "finished"
  /\ hostpc # "abort_raster"
  /\ run < MaxRuns
  /\ IF ~checkProcessInput(input)
       THEN /\ thrown' = TRUE
            /\ UNCHANGED <<phase, graph, status, pc, abortFlag, hostpc, host,
                           doneCalls, errorCalls, runStatus, hist,
                           failureLog, abortCalls, run, ctx,
                           resetAt, trajopt, wait, built>>
       ELSE LET tf == BuildTaskflow(input)
                ids == Range(tf.raster_tasks_) \cup { e.to : e \in tf.edges }
            IN /\ built' = tf.built
               /\ raster_tasks_' = tf.raster_tasks_
               /\ transition_tasks_' = tf.transition_tasks_
               /\ edges' = tf.edges
               /\ input_size' = input.size
               /\ owner' = [n \in ids |->
                              IF n \in Range(tf.raster_tasks_)
                                THEN "raster" ELSE "transition"]
               /\ status' = [n \in ids |-> "PENDING"]
               /\ pc' = [n \in ids |-> "idle"]
               /\ node_infos' = [n \in ids |-> << >>]
               /\ context' = newContext
               /\ done_cb' = dcb
               /\ error_cb' = ecb
               /\ generateTaskflow_outcome(tf.built)
               /\ hostpc' = "idle"
               /\ abortCalls' = 0
               /\ doneCalls' = 0
               /\ errorCalls' = 0
               /\ runStatus' = "NONE"
               /\ everRunning' = {}
               /\ accessed' = {}
               /\ pendingAtFailure' = {}
               /\ failureLog' = << >>
               /\ UNCHANGED <<abortFlag, resetAt, trajopt, wait>>

NextRuns ==
  \/ \E input \in RunsInputs, dcb \in BOOLEAN, ecb \in BOOLEAN :
       generateTaskflow(input, dcb, ecb)
  \/ Execute
  \/ reset
  \/ \E input \in RunsInputs, dcb \in BOOLEAN, ecb \in BOOLEAN :
       generateTaskflow_again(input, dcb, ecb)

SpecRuns == Init /\ [][NextRuns]_vars

----------------------------------------------------------------------------
(* DefaultTrajoptProblemGenerator(request, plan_profiles, composite_profiles) *)
(* and the task node that calls it.                                         *)

ProfileNames == {"", "DEFAULT", "RASTER"}
WaypointTypes == {"cartesian", "joint", "other"}

\* A profile map holds, under some of the names, the profile registered
\* under that name.
ProfileMaps ==
  { [name \in keys |-> <<"registered", name>>] : keys \in SUBSET {"DEFAULT", "RASTER"} }

\* request.instructions[i] with request.seed[i], as far as the loop reads them.
Instructions ==
  [plan : BOOLEAN,                       \* isPlanInstruction(instruction)
   motion : {"linear", "freespace", "circular"},
   waypoint : WaypointTypes,             \* type of plan_instruction->getWaypoint()
   profile : ProfileNames,               \* plan_instruction->getProfile()
   seed_size : 1..MaxSeed,               \* request.seed[i] composite size
   calcFwdKin : BOOLEAN]                 \* what pci->kin->calcFwdKin returns

\* The request, without the instructions the loop has yet to read and without
\* the composite's profile name, which is read after the loop.
Requests ==
  [manipulator : BOOLEAN,                \* getManipulator(request.manipulator) != nullptr
   child_composite : BOOLEAN,            \* some instruction is a composite
   size : 0..MaxInstructions,            \* request.instructions.size()
   hasStartWaypoint : BOOLEAN,
   start_waypoint : WaypointTypes]       \* type of instructions.getStartWaypoint()

\* Variant: an empty profile name is looked up as it is.
profileName_AsGiven(profile) == profile

\* if (profile.empty()) profile = "DEFAULT";
profileName(profile) == IF profile = "" THEN "DEFAULT" ELSE profile

\* auto it = plan_profiles.find(profile);
\* it == end() ? std::make_shared<TrajOptDefaultPlanProfile>() : it->second
findPlanProfile(plan_profiles, profile) ==
  IF profile \notin DOMAIN plan_profiles
    THEN <<"built-in", "TrajOptDefaultPlanProfile">>
    ELSE plan_profiles[profile]

\* auto it = composite_profiles.find(profile);
\* it == end() ? std::make_shared<TrajOptDefaultCompositeProfile>() : it->second
findCompositeProfile(composite_profiles, profile) ==
  IF profile \notin DOMAIN composite_profiles
    THEN <<"built-in", "TrajOptDefaultCompositeProfile">>
    ELSE composite_profiles[profile]

\* throw std::runtime_error(error_msg)
throw(g, error_msg) == [g EXCEPT !.at = "done", !.result = "runtime_error", !.error = error_msg]

\* The call up to the loop: manipulator, child composites, start waypoint.
\* pci->kin->getTipLinkName() is evaluated before pci->kin is compared with
\* nullptr: for a missing manipulator the behaviour is undefined, and the
\* build either crashes there or goes on to the check and throws.
DefaultTrajoptProblemGenerator(request, plan_profiles) ==
  /\ gen.at = "idle"
  /\ LET g == [gen EXCEPT !.manipulator = request.manipulator,
                          !.size = request.size,
                          !.plan_profiles = plan_profiles]
     IN \/ /\ ~request.manipulator
           /\ gen' = [g EXCEPT !.at = "done", !.result = "crash",
                               !.null_kin_used = TRUE]
        \/ /\ ~request.manipulator
           /\ gen' = throw([g EXCEPT !.null_kin_used = TRUE],
                           "manipulator_ does not exist in kin_map_")
        \/ /\ request.manipulator
           /\ gen' = IF request.child_composite
                       THEN throw(g, "child composite instructions")
                       ELSE [g EXCEPT !.at = "loop",
                                      !.start_waypoint =
                                         IF request.hasStartWaypoint
                                           THEN request.start_waypoint
                                           ELSE "joint"]
  /\ UNCHANGED <<raster, leaf, wait, built>>

\* poses.size() of interpolate(prev_pose, cur_pose, interpolate_cnt)
posesSize(interpolate_cnt) == interpolate_cnt + 1

\* The number of passes of for (p = 1; p < poses.size() - 1; ++p)
linearPasses(interpolate_cnt) ==
  IF posesSize(interpolate_cnt) - 1 > 1 THEN posesSize(interpolate_cnt) - 2 ELSE 0

\* The number of passes of
\* for (s = freespace_seed_shift_index; s < seed_composite->size() - 1; ++s)
freespacePasses(freespace_seed_shift_index, seed_size) ==
  IF seed_size - 1 > freespace_seed_shift_index
    THEN seed_size - 1 - freespace_seed_shift_index ELSE 0

\* One pass of the loop over request.instructions, for a plan instruction.
planInstruction(g0, instruction) ==
  LET profile == profileName(instruction.profile)
      g1 == [g0 EXCEPT !.instruction = instruction,
                       !.cur_plan_profile = findPlanProfile(g0.plan_profiles, profile)]
      first == ~g0.found_plan_instruction
      interpolate_cnt == IF first THEN instruction.seed_size - 1 ELSE instruction.seed_size
      freespace_seed_shift_index == IF first THEN 1 ELSE 0
      \* the start seed state and the start waypoint
      g2 == IF first
              THEN [g1 EXCEPT !.seed_states = @ + 1, !.index = @ + 1]
              ELSE g1
      lin == linearPasses(interpolate_cnt)
      fre == freespacePasses(freespace_seed_shift_index, instruction.seed_size)
      done == [g2 EXCEPT !.found_plan_instruction = TRUE,
                         !.start_waypoint = instruction.waypoint,
                         !.i = @ + 1]
  IN
  IF first /\ g1.start_waypoint = "other"
    THEN throw(g1, "uknown waypoint type.")
  ELSE IF instruction.motion = "linear"
    THEN IF instruction.waypoint = "cartesian"
           THEN IF g2.start_waypoint = "joint" /\ ~instruction.calcFwdKin
                  THEN throw(g2, "failed to solve forward kinematics!")
                ELSE IF g2.start_waypoint = "other"
                  THEN throw(g2, "uknown waypoint type.")
                ELSE [done EXCEPT !.seed_states = @ + lin + 1,
                                  !.index = @ + lin + 1]
         ELSE IF instruction.waypoint = "joint"
           THEN IF ~instruction.calcFwdKin
                  THEN throw(g2, "failed to solve forward kinematics!")
                ELSE IF g2.start_waypoint = "other"
                  THEN throw(g2, "uknown waypoint type.")
                ELSE [done EXCEPT !.seed_states = @ + lin + 1,
                                  !.index = @ + lin + 1]
         ELSE throw(g2, "unknown waypoint type")
  ELSE IF instruction.motion = "freespace"
    THEN IF instruction.waypoint \in {"joint", "cartesian"}
           THEN [done EXCEPT !.seed_states = @ + fre + 1,
                             !.fixed_steps = Append(@, g2.index + fre),
                             !.index = @ + fre + 1]
           ELSE throw(g2, "unknown waypoint type")
  ELSE throw(g2, "Unsupported!")

\* for (i = 0; i < request.instructions.size(); ++i): one pass
loopPass(instruction) ==
  /\ gen.at = "loop"
  /\ gen.i < gen.size
  /\ gen' = IF instruction.plan
              THEN planInstruction(gen, instruction)
              ELSE [gen EXCEPT !.i = @ + 1]
  /\ UNCHANGED <<raster, leaf, wait, built>>

\* Variant: n_steps is the last index instead of the number of steps.
constructProblem_LastIndex(profile, composite_profiles) ==
  /\ gen.at = "loop"
  /\ gen.i = gen.size
  /\ gen' = [gen EXCEPT
               !.n_steps = gen.index - 1,
               !.profile = profile,
               !.composite_profiles = composite_profiles,
               !.cur_composite_profile =
                  findCompositeProfile(composite_profiles, profileName(profile)),
               !.at = "done",
               !.result = "problem"]
  /\ UNCHANGED <<raster, leaf, wait, built>>

\* After the loop: n_steps, then the composite profile is looked up under
\* request.instructions.getProfile() in composite_profiles, and the problem
\* is returned.
constructProblem(profile, composite_profiles) ==
  /\ gen.at = "loop"
  /\ gen.i = gen.size
  /\ gen' = [gen EXCEPT
               !.n_steps = gen.index,
               !.profile = profile,
               !.composite_profiles = composite_profiles,
               !.cur_composite_profile =
                  findCompositeProfile(composite_profiles, profileName(profile)),
               !.at = "done",
               !.result = "problem"]
  /\ UNCHANGED <<raster, leaf, wait, built>>

\* The task node around the generator: a returned problem is SUCCESS, an
\* exception is caught at the node boundary and becomes FAILURE; either way
\* the node returns a Node Info.
runImpl ==
  /\ gen.at = "done"
  /\ gen.result \in {"problem", "runtime_error"}
  /\ leaf.status = "NONE"
  /\ leaf' = [status |-> IF gen.result = "problem" THEN "SUCCESS" ELSE "FAILURE",
              info |-> TRUE]
  /\ UNCHANGED <<raster, gen, wait, built>>

NextTrajopt ==
  \/ \E request \in Requests, plan_profiles \in ProfileMaps :
       DefaultTrajoptProblemGenerator(request, plan_profiles)
  \/ \E instruction \in Instructions : loopPass(instruction)
  \/ \E profile \in ProfileNames, composite_profiles \in ProfileMaps :
       constructProblem(profile, composite_profiles)
  \/ runImpl

SpecTrajopt == Init /\ [][NextTrajopt]_vars

----------------------------------------------------------------------------
(* WaitInstruction: its constructors and setters.                          *)

WaitInstructionType ==
  {"TIME", "DIGITAL_INPUT_HIGH", "DIGITAL_INPUT_LOW",
   "DIGITAL_OUTPUT_HIGH", "DIGITAL_OUTPUT_LOW"}

IOs == -1..MaxIO
WaitTimes == 0..MaxWaitTime
Descriptions == {"Tesseract Wait Instruction", "Wait for gripper"}

\* The members with their default member initializers; wait_type_ has none.
defaultMembers(type) ==
  [noWaitInstruction EXCEPT !.object = TRUE,
                            !.description_ = "Tesseract Wait Instruction",
                            !.wait_type_ = type,
                            !.wait_time_ = 0,
                            !.wait_io_ = -1]

\* WaitInstruction() = default: wait_type_ is left uninitialized, its value is
\* whatever the build produces.
WaitInstruction_default(type) ==
  /\ wait.constructor = <<"none">>
  /\ wait' = [defaultMembers(type) EXCEPT !.constructor = <<"default">>]
  /\ UNCHANGED <<raster, trajopt, built>>

\* WaitInstruction(double time) : wait_type_(TIME), wait_time_(time) {}
WaitInstruction_time(time) ==
  /\ wait.constructor = <<"none">>
  /\ wait' = [defaultMembers("TIME") EXCEPT !.constructor = <<"time", time>>,
                                            !.wait_time_ = time]
  /\ UNCHANGED <<raster, trajopt, built>>

\* Variant: the (type, io) constructor accepts TIME.
WaitInstruction_type_io_Unchecked(type, io) ==
  /\ wait.constructor = <<"none">>
  /\ wait' = [defaultMembers(type) EXCEPT !.constructor = <<"type_io", type, io>>,
                                          !.wait_io_ = io]
  /\ UNCHANGED <<raster, trajopt, built>>

\* WaitInstruction(WaitInstructionType type, int io) : wait_type_(type), wait_io_(io)
\* { if (wait_type_ == TIME) throw std::runtime_error(...); }
WaitInstruction_type_io(type, io) ==
  /\ wait.constructor = <<"none">>
  /\ wait' = IF type = "TIME"
               THEN [noWaitInstruction EXCEPT
                       !.constructor = <<"type_io", type, io>>,
                       !.error = "Invalid type 'WaitInstructionType::TIME' for constructor"]
               ELSE [defaultMembers(type) EXCEPT
                       !.constructor = <<"type_io", type, io>>,
                       !.wait_io_ = io]
  /\ UNCHANGED <<raster, trajopt, built>>

setDescription(description) ==
  /\ wait.object
  /\ wait' = [wait EXCEPT !.description_ = description]
  /\ UNCHANGED <<raster, trajopt, built>>

setWaitType(type) ==
  /\ wait.object
  /\ wait' = [wait EXCEPT !.wait_type_ = type]
  /\ UNCHANGED <<raster, trajopt, built>>

setWaitTime(time) ==
  /\ wait.object
  /\ wait' = [wait EXCEPT !.wait_time_ = time]
  /\ UNCHANGED <<raster, trajopt, built>>

setWaitIO(io) ==
  /\ wait.object
  /\ wait' = [wait EXCEPT !.wait_io_ = io]
  /\ UNCHANGED <<raster, trajopt, built>>

NextWait ==
  \/ \E type \in WaitInstructionType : WaitInstruction_default(type)
  \/ \E time \in WaitTimes : WaitInstruction_time(time)
  \/ \E type \in WaitInstructionType, io \in IOs : WaitInstruction_type_io(type, io)
  \/ \E description \in Descriptions : setDescription(description)
  \/ \E type \in WaitInstructionType : setWaitType(type)
  \/ \E time \in WaitTimes : setWaitTime(time)
  \/ \E io \in IOs : setWaitIO(io)

SpecWait == Init /\ [][NextWait]_vars

----------------------------------------------------------------------------
(* Fair scheduling of a run.                                               *)

\* What the executor's workers and the nodes do by themselves: readiness
\* checks, dispatch, a dispatched node running to completion (its sub-graph
\* ends well, or its failure callback runs statement by statement), and the
\* end of the run.  The host's abort() is not among them.
Progress ==
  \/ \E n \in Nodes : MakeReady(n)
  \/ \E n \in Nodes : AbortNode(n)
  \/ \E n \in Nodes : Dispatch(n)
  \/ \E n \in Nodes : Succeed(n)
  \/ \E n \in Nodes : failureCallback_abortTransition(n)
  \/ \E n \in Nodes : failureCallback_abortRaster(n)
  \/ \E n \in Nodes : failureCallback_userCallback(n)
  \/ Finish

SpecFair == Init /\ [][Next]_vars /\ WF_vars(Progress)

TypeOK ==
  /\ phase \in {"constructed", "running", "finished", "crashed"}
  /\ thrown \in BOOLEAN
  /\ built.transitions \in 0..MaxSegs
  /\ built.start_instruction \in {"unused", "composite", "null"}
  /\ \A n \in Nodes : status[n] \in {"PENDING", "READY", "RUNNING"} \cup Terminal
  /\ \A n \in Nodes : pc[n] \in {"idle", "abort_raster", "user_callback", "returned"}
  /\ hostpc \in {"idle", "abort_raster", "returned"}
  /\ abortCalls \in 0..MaxAborts
  /\ run \in 0..MaxRuns
  /\ resetAt \in 0..MaxRuns
  /\ gen.at \in {"idle", "loop", "done"}
  /\ gen.result \in {"none", "problem", "runtime_error", "crash"}
  /\ gen.i \in 0..MaxInstructions
  /\ gen.seed_states \in 0..(MaxInstructions * (MaxSeed + 1))
  /\ leaf.status \in {"NONE", "SUCCESS", "FAILURE"}
  /\ wait.object \in BOOLEAN
  /\ wait.wait_type_ \in WaitInstructionType
  /\ wait.wait_time_ \in WaitTimes
  /\ wait.wait_io_ \in IOs \cup {0}
  /\ DOMAIN node_infos = Nodes
  /\ \A n \in Nodes : \A k \in 1..Len(node_infos[n]) :
       node_infos[n][k] \in {"SUCCESS", "FAILURE", "ABORTED"}
  /\ \A key \in ContextKeys : context[key] \in ContextValues \cup {"NotFound"}
  /\ runStatus \in {"NONE", "SUCCESS", "FAILURE"}
  /\ doneCalls \in 0..MaxSegs + 1
  /\ errorCalls \in 0..MaxSegs + 1

----------------------------------------------------------------------------
(* Properties.                                                             *)

\* abort() has been carried out on both child generators: the host's abort()
\* returned, or some failureCallback is past its two abort() calls.
AbortIssued ==
  \/ abortCalls > 0
  \/ \E n \in Nodes : pc[n] \in {"user_callback", "returned"}

\* C1: a node is RUNNING (or has been) only when every predecessor on an
\* inbound edge is terminal; in the pipeline, transition k has started only
\* when raster k and raster k+1 are both terminal.
C1_NoStartBeforePredecessors ==
  /\ \A n \in Nodes :
       (status[n] = "RUNNING" \/ n \in everRunning) =>
         \A p \in Preds(n) : status[p] \in Terminal
  /\ \A k \in 1..Len(transition_tasks_) :
       (phase # "constructed" /\ transition_tasks_[k] \in everRunning) =>
         /\ status[raster_tasks_[k]] \in Terminal
         /\ status[raster_tasks_[k + 1]] \in Terminal

C1_Witness ==
  \E k \in 1..Len(transition_tasks_) :
    phase = "running" /\ status[transition_tasks_[k]] = "RUNNING"

\* C2: the host's failure callback is invoked at most once in a run.
C2_AtMostOneFailureCallback == errorCalls <= 1

\* C3: once the abort has been issued, no node moves from PENDING or READY to
\* RUNNING, and no node that is RUNNING moves to SUCCESS.
C3_AbortStopsWork ==
  [][AbortIssued =>
       \A n \in Nodes :
         /\ status[n] \in {"PENDING", "READY"} => status'[n] # "RUNNING"
         /\ status[n] = "RUNNING" => status'[n] # "SUCCESS"]_vars

C3_Witness ==
  /\ AbortIssued
  /\ \E n \in Nodes : status[n] = "ABORTED" /\ n \in everRunning
  /\ \E n \in Nodes : status[n] = "ABORTED" /\ n \notin everRunning

\* C4: a node that was PENDING when some node returned FAILURE never runs and
\* is ABORTED when the run is over; once a node has returned FAILURE no node
\* is dispatched.
C4_FailureAbortsPending ==
  /\ [](\A n \in pendingAtFailure :
          /\ n \notin everRunning
          /\ status[n] \notin {"RUNNING", "SUCCESS", "FAILURE"}
          /\ phase = "finished" => status[n] = "ABORTED")
  /\ [][(\E m \in Nodes : status[m] = "FAILURE") =>
          \A n \in Nodes : status[n] # "RUNNING" => status'[n] # "RUNNING"]_vars

C4_Witness ==
  /\ phase = "finished"
  /\ pendingAtFailure # {}

\* C5: whenever a failureCallback is at, or past, the call of the outer
\* failure callback, both child generators have been aborted.
C5_AbortBeforeFailureCallback ==
  /\ \A n \in Nodes :
       pc[n] \in {"user_callback", "returned"} =>
         abortFlag["transition"] /\ abortFlag["raster"]
  /\ errorCalls > 0 => abortFlag["transition"] /\ abortFlag["raster"]

C5_Witness ==
  /\ errorCalls > 0
  /\ \E n \in Nodes : pc[n] = "returned"

\* C6: with unconditional edges only, the run ends SUCCESS exactly when every
\* node ended SUCCESS.
C6_SuccessIffAllSucceed ==
  phase = "finished" =>
    (runStatus = "SUCCESS" <=> \A n \in Nodes : status[n] = "SUCCESS")

C6_Witness ==
  /\ phase = "finished"
  /\ runStatus = "SUCCESS"
  /\ Len(transition_tasks_) >= 2

C8_SuccessCallbackOnlyOnSuccess ==
  /\ runStatus = "FAILURE" => doneCalls = 0
  /\ ~(doneCalls > 0 /\ errorCalls > 0)

\* A node gated on two predecessors succeeding: two inbound onSuccess edges,
\* or a transition of the pipeline.
TwoGated(n) ==
  /\ Cardinality(Inbound(n)) = 2
  /\ \/ \A e \in Inbound(n) : e.guard = "onSuccess"
     \/ n \in Range(transition_tasks_)

\* C9: a node gated on two predecessors is READY or has run only when both
\* ended SUCCESS; when one of them ended FAILURE it never runs and ends
\* SKIPPED or ABORTED.
C9_ConjunctiveGating ==
  \A n \in Nodes :
    TwoGated(n) =>
      /\ (status[n] \in {"READY", "RUNNING"} \/ n \in everRunning) =>
           \A p \in Preds(n) : status[p] = "SUCCESS"
      /\ (\E p \in Preds(n) : status[p] = "FAILURE") =>
           /\ n \notin everRunning
           /\ status[n] \in {"PENDING", "SKIPPED", "ABORTED"}
           /\ phase = "finished" => status[n] \in {"SKIPPED", "ABORTED"}

C9_Witness ==
  /\ phase = "finished"
  /\ \E n \in Nodes :
       /\ TwoGated(n)
       /\ n \in Range(transition_tasks_)
       /\ \E p \in Preds(n) : status[p] = "FAILURE"
       /\ \E p \in Preds(n) : status[p] = "SUCCESS"

\* The gate of a conditional edge is false on its predecessor's terminal status.
GuardFalse(e) ==
  /\ status[e.from] \in Terminal
  /\ \/ e.guard = "onSuccess" /\ status[e.from] # "SUCCESS"
     \/ e.guard = "onFailure" /\ status[e.from] # "FAILURE"

C11_OnlyRaster2Failed ==
  /\ phase # "constructed"
  /\ input_size = 5
  /\ pc[raster_tasks_[2]] # "idle"
  /\ \A n \in Nodes \ {raster_tasks_[2]} : pc[n] = "idle"

\* C11: in R-T-R-T-R with only raster #2 failing, no transition is ever
\* SUCCESS, the run ends FAILURE, and failureCallback is invoked exactly once,
\* with the description of raster #2 (and calls error_cb once).
C11_MiddleRasterFails ==
  C11_OnlyRaster2Failed =>
    /\ \A k \in 1..Len(transition_tasks_) :
         status[transition_tasks_[k]] \notin {"RUNNING", "SUCCESS"}
    /\ Len(failureLog) <= 1
    /\ phase = "finished" =>
         /\ runStatus = "FAILURE"
         /\ failureLog = << segmentDescription(raster_tasks_[2]) >>
         /\ errorCalls = IF error_cb THEN 1 ELSE 0

C11_Witness ==
  /\ C11_OnlyRaster2Failed
  /\ phase = "finished"
  /\ error_cb
  /\ status[raster_tasks_[1]] = "SUCCESS"
  /\ status[raster_tasks_[3]] = "SUCCESS"

\* C12: within a run no step makes isAborted() false again for any node
\* (neither a success callback, nor a failure callback, nor a further
\* abort()), and an abort() call made after an abort() call has returned
\* changes neither the abort flags nor any node's state.
C12_AbortIdempotentMonotonic ==
  /\ [][phase = "running" =>
          /\ \A g \in Generators : abortFlag[g] => abortFlag'[g]
          /\ \A n \in Nodes : isAborted(n) => abortFlag'[owner[n]]]_vars
  /\ [][(abortCalls >= 1 /\ run' = run /\ hostpc' # hostpc) =>
          (abortFlag' = abortFlag /\ status' = status)]_vars

C12_Witness ==
  /\ phase = "running"
  /\ abortCalls >= 2
  /\ doneCalls > 0
  /\ \A g \in Generators : abortFlag[g]
  /\ \E n \in Nodes : status[n] = "RUNNING"

\* C13: a generateTaskflow call whose input fails checkProcessInput (no
\* environment handle, not a composite, no start instruction, a child that
\* is not a composite) throws and leaves the taskflow, raster_tasks_,
\* transition_tasks_, every node and the child generators as they were: no
\* node is created or dispatched.
C13_InvalidInputChangesNothing ==
  [][(~thrown /\ thrown') =>
       /\ UNCHANGED <<raster_tasks_, transition_tasks_, edges, owner>>
       /\ UNCHANGED <<status, pc, abortFlag, phase, everRunning>>]_vars

C13_Witness ==
  /\ thrown
  /\ phase = "finished"
  /\ raster_tasks_ # << >>
  /\ edges # {}
  /\ \E g \in Generators : abortFlag[g]

\* The nodes reachable from the set S in at most k further edges.
RECURSIVE Descendants(_, _)
Descendants(S, k) ==
  IF k = 0 THEN S
  ELSE Descendants(S \cup { e.to : e \in { f \in edges : f.from \in S } }, k - 1)

Acyclic ==
  \A n \in Nodes :
    n \notin Descendants({ e.to : e \in Outbound(n) }, Cardinality(Nodes))

\* The transition nodes of the taskflow, i.e. the nodes composed from the
\* transition generator's sub-taskflows.
TransitionNodes == { n \in Nodes : owner[n] = "transition" }

\* C15: for an accepted input of odd size n the taskflow has (n+1)/2 raster
\* nodes without predecessors and (n-1)/2 transition nodes; transition k (made
\* from segment 2k-1) has exactly the two predecessors raster k and raster
\* k+1; the graph has no cycle.
C15_PipelineShape ==
  (phase # "constructed" /\ input_size % 2 = 1) =>
    /\ Len(raster_tasks_) = (input_size + 1) \div 2
    /\ Cardinality(Range(raster_tasks_)) = (input_size + 1) \div 2
    /\ \A r \in Range(raster_tasks_) : owner[r] = "raster" /\ Preds(r) = {}
    /\ Cardinality(TransitionNodes) = (input_size - 1) \div 2
    /\ TransitionNodes = { 2 * k - 1 : k \in 1..((input_size - 1) \div 2) }
    /\ \A k \in 1..((input_size - 1) \div 2) :
         /\ Preds(2 * k - 1) = {raster_tasks_[k], raster_tasks_[k + 1]}
         /\ Cardinality(Inbound(2 * k - 1)) = 2
         /\ raster_tasks_[k] # raster_tasks_[k + 1]
    /\ Acyclic

C15_Witness ==
  /\ phase = "running"
  /\ input_size = 5
  /\ Len(raster_tasks_) = 3
  /\ Cardinality(TransitionNodes) = 2
  /\ Cardinality(edges) = 4

\* C16: no node ever has more than one Node Info, and when the run is over
\* every node that was dispatched has exactly one.
C16_ExactlyOneNodeInfo ==
  /\ \A n \in Nodes : Len(node_infos[n]) <= 1
  /\ phase = "finished" =>
       \A n \in everRunning : Len(node_infos[n]) = 1 /\ getNodeInfo(n) = status[n]

C16_Witness ==
  /\ phase = "finished"
  /\ \E n \in everRunning : getNodeInfo(n) = "FAILURE"
  /\ \E n \in everRunning : getNodeInfo(n) = "SUCCESS"
  /\ \E n \in everRunning : getNodeInfo(n) = "ABORTED"
  /\ \E n \in Nodes \ everRunning : getNodeInfo(n) = "NotFound"

\* C17: within one context, once getNodeInfo(i) returns an info it returns
\* that info after every later step: set() on a Context Key, recordNodeInfo
\* for another node id, or anything else.
C17_NodeInfoStable ==
  [][\A i \in Nodes :
       (run' = run /\ getNodeInfo(i) # "NotFound") =>
         getNodeInfo(i)' = getNodeInfo(i)]_vars

C17_Witness ==
  /\ phase = "finished"
  /\ get("program") = "trajectory"
  /\ \E i, j \in Nodes :
       /\ i < j
       /\ getNodeInfo(i) = "FAILURE"
       /\ getNodeInfo(j) = "SUCCESS"

\* C18: a node's Node Info and its terminal state appear in the same step: no
\* node info is retrievable for a node that is not terminal, a dispatched node
\* that is terminal has its info, and no dependent is READY or RUNNING while
\* the info of a predecessor is missing.
C18_InfoWithTerminalState ==
  /\ \A n \in Nodes : getNodeInfo(n) # "NotFound" => status[n] \in Terminal
  /\ \A n \in everRunning : status[n] \in Terminal => getNodeInfo(n) # "NotFound"
  /\ \A e \in edges :
       status[e.to] \in {"READY", "RUNNING"} => getNodeInfo(e.from) # "NotFound"

C18_Witness ==
  /\ phase = "running"
  /\ \E e \in edges :
       /\ status[e.to] = "RUNNING"
       /\ getNodeInfo(e.from) = "SUCCESS"
  /\ \E n \in Nodes : status[n] = "RUNNING" /\ getNodeInfo(n) = "NotFound"

\* The run is over and in it nothing went wrong: the host requested no abort
\* and no node's sub-graph failed.
CleanRun ==
  /\ phase = "finished"
  /\ hostpc = "idle"
  /\ abortCalls = 0
  /\ \A n \in Nodes : pc[n] = "idle"

\* The Node Info keys a clean run leaves are the node ids of the taskflow, and
\* every node ended SUCCESS.
SameAsFirstRun ==
  /\ { n \in Nodes : getNodeInfo(n) # "NotFound" } = Nodes
  /\ Nodes = { idx \in 0..(input_size - 1) : idx % 2 = 0 \/ idx < input_size - 1 }
  /\ \A n \in Nodes : status[n] = "SUCCESS"
  /\ runStatus = "SUCCESS"

C19_FailureStaysInNode ==
  (gen.at = "done" /\ gen.result # "problem") =>
    /\ gen.result = "runtime_error"
    /\ leaf.status # "NONE" => (leaf.status = "FAILURE" /\ leaf.info)

\* C20: an empty profile name is looked up as "DEFAULT"; a name without an
\* entry in the map gives the built-in default profile, an existing entry is
\* used as it is, for the plan profile of every plan instruction and for the
\* composite profile; and no lookup makes the generator throw: an exception
\* out of the loop comes from the waypoints, the motion type or the forward
\* kinematics.
C20_ProfileLookup ==
  /\ gen.instruction.plan =>
       LET name == IF gen.instruction.profile = "" THEN "DEFAULT"
                   ELSE gen.instruction.profile
       IN gen.cur_plan_profile =
            IF name \in DOMAIN gen.plan_profiles
              THEN gen.plan_profiles[name]
              ELSE <<"built-in", "TrajOptDefaultPlanProfile">>
  /\ gen.result = "problem" =>
       LET name == IF gen.profile = "" THEN "DEFAULT" ELSE gen.profile
       IN gen.cur_composite_profile =
            IF name \in DOMAIN gen.composite_profiles
              THEN gen.composite_profiles[name]
              ELSE <<"built-in", "TrajOptDefaultCompositeProfile">>
  /\ (gen.result = "runtime_error" /\ gen.instruction.plan) =>
       \/ gen.start_waypoint = "other"
       \/ gen.instruction.waypoint = "other"
       \/ gen.instruction.motion = "circular"
       \/ ~gen.instruction.calcFwdKin

C20_Witness ==
  /\ gen.result = "problem"
  /\ leaf.status = "SUCCESS"
  /\ gen.instruction.plan
  /\ gen.instruction.profile = ""
  /\ gen.cur_plan_profile = <<"registered", "DEFAULT">>
  /\ "RASTER" \in DOMAIN gen.plan_profiles
  /\ gen.profile = "RASTER"
  /\ gen.composite_profiles = << >>
  /\ gen.cur_composite_profile = <<"built-in", "TrajOptDefaultCompositeProfile">>

\* C21: for a manipulator that does not exist the generator ends by throwing
\* the runtime_error "manipulator_ does not exist in kin_map_", and it has not
\* used a member of the null kinematics object.
C21_MissingManipulatorThrows ==
  (gen.at = "done" /\ ~gen.manipulator) =>
    /\ gen.result = "runtime_error"
    /\ gen.error = "manipulator_ does not exist in kin_map_"
    /\ ~gen.null_kin_used

\* C22: as long as the generator has not thrown, after every pass of the loop
\* the number of seed states equals the step counter and every index in
\* fixed_steps is below it; when the problem is returned,
\* seed_states.size() == n_steps and every fixed step is smaller than n_steps.
C22_SeedStatesMatchSteps ==
  /\ gen.result \in {"none", "problem"} =>
       /\ gen.seed_states = gen.index
       /\ \A k \in 1..Len(gen.fixed_steps) :
            gen.fixed_steps[k] >= 0 /\ gen.fixed_steps[k] < gen.index
  /\ gen.result = "problem" =>
       /\ gen.seed_states = gen.n_steps
       /\ \A k \in 1..Len(gen.fixed_steps) : gen.fixed_steps[k] < gen.n_steps

C22_Witness ==
  /\ gen.result = "problem"
  /\ gen.size = 2
  /\ gen.instruction.plan
  /\ gen.instruction.motion = "linear"
  /\ gen.instruction.seed_size = 2
  /\ Len(gen.fixed_steps) = 1
  /\ gen.n_steps = 4

\* C23: the (type, io) constructor called with TIME throws a runtime_error and
\* leaves no object; called with one of the four digital types it gives an
\* instruction with that type, that io and wait time 0.
C23_TypeIoConstructor ==
  [][(wait.constructor = <<"none">> /\ wait'.constructor[1] = "type_io") =>
       LET type == wait'.constructor[2]
           io == wait'.constructor[3]
       IN IF type = "TIME"
            THEN ~wait'.object /\ wait'.error # "none"
            ELSE /\ wait'.object
                 /\ wait'.error = "none"
                 /\ wait'.wait_type_ = type
                 /\ wait'.wait_io_ = io
                 /\ wait'.wait_time_ = 0]_vars

C23_Witness ==
  /\ wait.constructor = <<"type_io", "DIGITAL_OUTPUT_LOW", MaxIO>>
  /\ wait.object
  /\ wait.wait_type_ = "DIGITAL_OUTPUT_LOW"
  /\ wait.wait_io_ = MaxIO
  /\ wait.wait_time_ = 0

\* C24: under fair scheduling every run of a taskflow built by
\* generateTaskflow comes to its end with every node in a terminal state,
\* with or without an abort: no node stays PENDING, READY or RUNNING.
C24_EveryNodeTerminates ==
  (phase = "running") ~>
    (phase = "finished" /\ \A n \in Nodes : status[n] \in Terminal)

C24_Witness ==
  /\ phase = "finished"
  /\ input_size = 5
  /\ abortCalls > 0
  /\ \E n \in Nodes : status[n] = "SUCCESS"
  /\ \E n \in Nodes : status[n] = "ABORTED" /\ n \in everRunning
  /\ \E n \in Nodes : status[n] = "ABORTED" /\ n \notin everRunning

\* C25: for every input that passes checkProcessInput, a composite without
\* segments included, generateTaskflow creates max(0, floor((n-1)/2))
\* transition nodes for n segments and indexes neither the input nor
\* raster_tasks_ at a position that is not below their size.
C25_TransitionsWithinBounds ==
  /\ ~built.out_of_range
  /\ built.transitions = IF built.size >= 1 THEN (built.size - 1) \div 2 ELSE 0

\* C26: after any sequence of generateTaskflow calls on one object with
\* inputs of n >= 1 segments the two lists describe the latest graph only:
\* raster_tasks_ has ceil(n/2) entries and transition_tasks_ one entry less.
C26_ListsDescribeLatestGraph ==
  (run >= 1 /\ phase \in {"running", "finished"}) =>
    /\ Len(raster_tasks_) = (input_size + 1) \div 2
    /\ Len(transition_tasks_) = Len(raster_tasks_) - 1

\* C27: whenever checkProcessInput accepts an input with a raster #0, the
\* start instruction generateTaskflow gives to raster #0 is not a
\* NullInstruction, and no call ends in a crash at its setPlanType().
C27_RasterZeroStartNotNull ==
  /\ built.start_instruction # "null"
  /\ (phase = "crashed" => built.out_of_range)

====
